---- MODULE Spec2Model ----
(***************************************************************************)
(* Long Range Attachments cloth demo (src/src/long-range-attachments.cpp). *)
(*                                                                         *)
(* State: the globals P, localConstraints, lraConstraints,                 *)
(* attachmentIndices, g_iterations, g_useLRA, g_lraSlack, and the position *)
(* of simulate() (pc, iter, ci).  Handlers: buildScene(), keyboard(),      *)
(* simulate() (called by idle()).  GLUT is single-threaded, so keyboard()  *)
(* runs only between two calls of simulate().                              *)
(*                                                                         *)
(* Numbers.  The program computes in IEEE float.  The model computes on a  *)
(* fixed-point grid of Scale units per metre: every float expression is    *)
(* evaluated exactly and rounded to the nearest grid value (RDiv,          *)
(* Length), as a float operation rounds to the nearest float.  Velocities  *)
(* are in units per second, the slack factor in hundredths, the inverse    *)
(* mass in whole units (1.0f is 1).  The cloth is scaled down from 30 x 30 *)
(* to GridW x GridH particles.  z stays 0: the rest layout is in the plane *)
(* z = 0 and gravity has no z component.                                   *)
(*                                                                         *)
(* Not modelled: the camera and mouse state, the window title, rendering   *)
(* (they read the simulation state only) and the ESC key (exit).           *)
(***************************************************************************)
EXTENDS Integers, Sequences, FiniteSets, TLC

VARIABLES P, localConstraints, lraConstraints, attachmentIndices,
          g_iterations, g_useLRA, g_lraSlack,
          pc, iter, ci,
          ticks, last, log, first, Q

vars == <<P, localConstraints, lraConstraints, attachmentIndices,
          g_iterations, g_useLRA, g_lraSlack, pc, iter, ci,
          ticks, last, log, first, Q>>

(***************************************************************************)
(* Bounds of the model.                                                    *)
(***************************************************************************)
\* grid width and height (the program's clothW, clothH are 30)
GridW == 3
GridH == 2
\* fixed-point units per metre
Scale == 100000
\* number of simulate() calls in a behaviour of Spec
MaxTicks == 2
\* number of lockstep ticks in a behaviour of SpecPair
MaxPairTicks == 14
\* number of ']' presses above slack 1.0
MaxSlackSteps == 1
\* rounding tolerance of a distance, in grid units
Tol == 2

(***************************************************************************)
(* Program constants.                                                      *)
(***************************************************************************)
\* dt = 1.0f / 60.0f
DtInv == 60
\* g = (0, -9.8, 0), in tenths
GravityTenths == 98
\* spacing = 0.05f = 1 / 20
SpacingInv == 20
\* p.v *= 0.99f, in hundredths
DragPct == 99
\* g_lraSlack = 1.0f, in hundredths
SlackOne == 100
\* g_lraSlack +/- 0.05f, in hundredths
SlackStep == 5
\* 1e-6f = 1 / 1000000
EpsInv == 1000000

clothW == GridW
clothH == GridH
spacing == (2 * Scale + SpacingInv) \div (2 * SpacingInv)

(***************************************************************************)
(* Arithmetic: rounding division, rounded square root, vectors.            *)
(***************************************************************************)
\* a / b rounded to the nearest integer, halves away from zero (b > 0)
RDiv(a, b) ==
    IF a >= 0 THEN (2 * a + b) \div (2 * b)
              ELSE -((2 * (-a) + b) \div (2 * b))

RECURSIVE Newton(_, _)
Newton(n, x) ==
    LET y == (x + n \div x) \div 2
    IN  IF y >= x THEN x ELSE Newton(n, y)

FloorSqrt(n) == IF n = 0 THEN 0 ELSE Newton(n, n \div 2 + 1)

\* std::sqrt, rounded to the nearest grid value
RoundSqrt(n) ==
    LET r == FloorSqrt(n)
    IN  IF n - r * r > r THEN r + 1 ELSE r

Vec(a, b, c) == [x |-> a, y |-> b, z |-> c]
VZero == Vec(0, 0, 0)
VAdd(u, v) == Vec(u.x + v.x, u.y + v.y, u.z + v.z)
VSub(u, v) == Vec(u.x - v.x, u.y - v.y, u.z - v.z)
\* v * (num / den), each component rounded
VMulDiv(v, num, den) ==
    Vec(RDiv(v.x * num, den), RDiv(v.y * num, den), RDiv(v.z * num, den))
\* glm::length
Length(v) == RoundSqrt(v.x * v.x + v.y * v.y + v.z * v.z)

\* x < 1e-6f for a length x >= 0 in grid units
BelowEps(x) == x < (Scale + EpsInv - 1) \div EpsInv

\* g * dt
GDt == Vec(0, -RDiv(RDiv(GravityTenths * Scale, 10), DtInv), 0)

(***************************************************************************)
(* buildScene()                                                            *)
(***************************************************************************)
NumParticles == clothW * clothH
idx(x, y) == y * clothW + x
XOf(id) == id % clothW
YOf(id) == id \div clothW

isPinned(x, y) == y = 0 /\ (x = 0 \/ x = clothW - 1)

\* the rest position of grid point (x, y)
RestPos(x, y) ==
    Vec(RDiv((2 * x - (clothW - 1)) * spacing, 2), (clothH - 1 - y) * spacing, 0)

InitParticle(x, y) ==
    [p |-> RestPos(x, y), old_p |-> RestPos(x, y), v |-> VZero,
     w |-> IF isPinned(x, y) THEN 0 ELSE 1,
     pinned |-> isPinned(x, y)]

\* P.clear(); P.resize(clothW * clothH); then every field of every particle
\* is assigned by the loop
BuildParticles == [id \in 0 .. NumParticles - 1 |-> InitParticle(XOf(id), YOf(id))]

\* std::vector::clear() (VecKeep: a clear() that was forgotten)
VecKeep(vec) == vec
VecClear(vec) == <<>>

RECURSIVE PushPins(_, _)
PushPins(id, vec) ==
    IF id >= NumParticles THEN vec
    ELSE PushPins(id + 1,
                  IF isPinned(XOf(id), YOf(id)) THEN Append(vec, id) ELSE vec)

addEdge(Pn, a, b) == [i |-> a, j |-> b, restLen |-> Length(VSub(Pn[a].p, Pn[b].p))]

\* if (x + 1 < clothW), if (y + 1 < clothH) (HasRightShort: off by one)
HasRightShort(x) == x + 1 < clothW - 1
HasRight(x) == x + 1 < clothW
HasBelow(y) == y + 1 < clothH

RECURSIVE AddEdges(_, _, _)
AddEdges(id, Pn, vec) ==
    IF id >= NumParticles THEN vec
    ELSE LET x == XOf(id)
             y == YOf(id)
             v1 == IF HasRight(x)
                   THEN Append(vec, addEdge(Pn, idx(x, y), idx(x + 1, y)))
                   ELSE vec
             v2 == IF HasBelow(y)
                   THEN Append(v1, addEdge(Pn, idx(x, y), idx(x, y + 1)))
                   ELSE v1
         IN  AddEdges(id + 1, Pn, v2)

\* float minInitDist = 1e30f: larger than any distance of the grid
minInitDistStart == 2 ^ 30

\* if (d < minInitDist) (CloserOrEqual: <= instead)
CloserOrEqual(d, m) == d <= m
Closer(d, m) == d < m

RECURSIVE ScanAttach(_, _, _, _, _)
ScanAttach(k, Pn, att, i, best) ==
    IF k > Len(att) THEN best
    ELSE LET d == Length(VSub(Pn[i].p, Pn[att[k]].p))
         IN  ScanAttach(k + 1, Pn, att, i,
                        IF Closer(d, best.minInitDist)
                        THEN [bestAttach |-> att[k], minInitDist |-> d]
                        ELSE best)

RECURSIVE BuildLRA(_, _, _, _)
BuildLRA(i, Pn, att, vec) ==
    IF i >= NumParticles THEN vec
    ELSE IF Pn[i].pinned THEN BuildLRA(i + 1, Pn, att, vec)
    ELSE LET best == ScanAttach(1, Pn, att, i,
                                [bestAttach |-> -1, minInitDist |-> minInitDistStart])
         IN  BuildLRA(i + 1, Pn, att,
                      IF best.bestAttach # -1
                      THEN Append(vec, [particleIdx |-> i,
                                        attachmentIdx |-> best.bestAttach,
                                        maxDist |-> best.minInitDist])
                      ELSE vec)

\* the four containers after buildScene(), from their content before it
BuiltAttach(oldAtt) == PushPins(0, VecClear(oldAtt))
BuiltLocal(oldLocal) == AddEdges(0, BuildParticles, VecClear(oldLocal))
BuiltLRA(oldLRA, att) == BuildLRA(0, BuildParticles, att, VecClear(oldLRA))

(***************************************************************************)
(* projectLocal(), projectLRA() and the stages of simulate()               *)
(***************************************************************************)
\* p1.w / wSum and p2.w / wSum, the shares of the two endpoints
\* (LocalShare1Swapped: the other endpoint's weight)
LocalShare1Swapped(p1, p2) == p2.w
LocalShare1(p1, p2) == p1.w
LocalShare2(p1, p2) == p2.w

ProjectLocal(Pn, c) ==
    LET p1 == Pn[c.i]
        p2 == Pn[c.j]
        dir == VSub(p1.p, p2.p)
        dist == Length(dir)
        correction == dist - c.restLen
        wSum == p1.w + p2.w
        \* dp = -correction * (dir / dist)
        dp == VMulDiv(dir, -correction, dist)
        n1 == IF ~p1.pinned
              THEN VAdd(p1.p, VMulDiv(dp, LocalShare1(p1, p2), wSum))
              ELSE p1.p
        n2 == IF ~p2.pinned
              THEN VSub(p2.p, VMulDiv(dp, LocalShare2(p1, p2), wSum))
              ELSE p2.p
    IN  IF BelowEps(dist) THEN Pn
        ELSE IF wSum * EpsInv < 1 THEN Pn
        ELSE [Pn EXCEPT ![c.i].p = n1, ![c.j].p = n2]

\* float limit = c.maxDist * g_lraSlack (LRALimitNoSlack: the slack left out)
LRALimitNoSlack(c, slack) == c.maxDist
LRALimit(c, slack) == RDiv(c.maxDist * slack, SlackOne)

\* correction = dir * (limit / currentDist) (LRACorrectionInverted: the ratio upside down)
LRACorrectionInverted(dir, limit, currentDist) == VMulDiv(dir, currentDist, limit)
LRACorrection(dir, limit, currentDist) == VMulDiv(dir, limit, currentDist)

\* the particle p.p = ... writes to (LRAWrittenAnchor: the anchor instead)
LRAWrittenAnchor(c) == c.attachmentIdx
LRAWritten(c) == c.particleIdx

\* if (currentDist > limit) (LRAStretchedFlipped: the comparison reversed)
LRAStretchedFlipped(currentDist, limit) == currentDist < limit
LRAStretched(currentDist, limit) == currentDist > limit

ProjectLRA(Pn, c, slack) ==
    LET p == Pn[c.particleIdx]
        attach == Pn[c.attachmentIdx]
        dir == VSub(p.p, attach.p)
        currentDist == Length(dir)
        limit == LRALimit(c, slack)
    IN  IF LRAStretched(currentDist, limit)
        THEN IF BelowEps(currentDist) THEN Pn
             ELSE [Pn EXCEPT ![LRAWritten(c)].p =
                                 VAdd(attach.p, LRACorrection(dir, limit, currentDist))]
        ELSE Pn

\* stage 1 for one particle: v += g * dt; old_p = p; p += v * dt
Integrate(q) ==
    LET v1 == VAdd(q.v, GDt)
    IN  [q EXCEPT !.v = v1, !.old_p = q.p, !.p = VAdd(q.p, VMulDiv(v1, 1, DtInv))]

\* if (p.pinned) continue; (PredictParticleNoPinCheck: the test left out)
PredictParticleNoPinCheck(q) == Integrate(q)
PredictParticle(q) == IF q.pinned THEN q ELSE Integrate(q)

Predict(Pn) == [i \in DOMAIN Pn |-> PredictParticle(Pn[i])]

\* stage 3 for one particle: v = (p - old_p) / dt; v *= 0.99f
VelocityParticle(q) ==
    IF q.pinned THEN q
    ELSE [q EXCEPT !.v = VMulDiv(VSub(q.p, q.old_p), DtInv * DragPct, 100)]

VelocityUpdate(Pn) == [i \in DOMAIN Pn |-> VelocityParticle(Pn[i])]

\* if (g_useLRA) (LRAGateAlways: the flag ignored)
LRAGateAlways(useLRA) == TRUE
LRAGate(useLRA) == useLRA

\* the loops of stage 2, as whole passes (n = n makes TLC compute each
\* intermediate particle store before the next projection starts)
RECURSIVE LocalPass(_, _)
LocalPass(Pn, k) ==
    IF k > Len(localConstraints) THEN Pn
    ELSE LET n == ProjectLocal(Pn, localConstraints[k])
         IN  IF n = n THEN LocalPass(n, k + 1) ELSE n

RECURSIVE LRAPass(_, _, _)
LRAPass(Pn, k, slack) ==
    IF k > Len(lraConstraints) THEN Pn
    ELSE LET n == ProjectLRA(Pn, lraConstraints[k], slack)
         IN  IF n = n THEN LRAPass(n, k + 1, slack) ELSE n

RECURSIVE Passes(_, _, _, _, _)
Passes(Pn, it, n, useLRA, slack) ==
    IF it >= n THEN Pn
    ELSE LET a == LocalPass(Pn, 1)
             b == IF LRAGate(useLRA) THEN LRAPass(a, 1, slack) ELSE a
         IN  IF b = b THEN Passes(b, it + 1, n, useLRA, slack) ELSE b

\* one whole call of simulate()
Simulate(Pn, n, useLRA, slack) ==
    VelocityUpdate(Passes(Predict(Pn), 0, n, useLRA, slack))

(***************************************************************************)
(* Initial state: main() has called buildScene() once.                     *)
(***************************************************************************)
Scene(Pn, lc, lra, att) == [P |-> Pn, local |-> lc, lra |-> lra, att |-> att]

EmptyLog == [predict |-> 0, passes |-> 0, cur |-> <<>>, velocity |-> 0]

InitCommon ==
    /\ P = BuildParticles
    /\ attachmentIndices = BuiltAttach(<<>>)
    /\ localConstraints = BuiltLocal(<<>>)
    /\ lraConstraints = BuiltLRA(<<>>, attachmentIndices)
    /\ pc = "idle"
    /\ iter = 0
    /\ ci = 0
    /\ ticks = 0
    /\ last = "build"
    /\ log = EmptyLog
    /\ first = Scene(P, localConstraints, lraConstraints, attachmentIndices)
    /\ Q = P

Init ==
    /\ InitCommon
    /\ g_iterations = 5
    /\ g_useLRA = TRUE
    /\ g_lraSlack = SlackOne

(***************************************************************************)
(* keyboard()                                                              *)
(***************************************************************************)
KeyFrame == UNCHANGED <<P, localConstraints, lraConstraints, attachmentIndices,
                        pc, iter, ci, ticks, log, first, Q>>

\* 'l', 'L'
KeyToggleLRA ==
    /\ pc = "idle"
    /\ g_useLRA' = ~g_useLRA
    /\ last' = "key"
    /\ UNCHANGED <<g_iterations, g_lraSlack>>
    /\ KeyFrame

\* 'r', 'R': buildScene()
KeyReset ==
    /\ pc = "idle"
    /\ P' = BuildParticles
    /\ attachmentIndices' = BuiltAttach(attachmentIndices)
    /\ localConstraints' = BuiltLocal(localConstraints)
    /\ lraConstraints' = BuiltLRA(lraConstraints, attachmentIndices')
    /\ last' = "build"
    /\ UNCHANGED <<g_iterations, g_useLRA, g_lraSlack, pc, iter, ci, ticks, log,
                   first, Q>>

\* ']'
KeySlackUp ==
    /\ pc = "idle"
    /\ g_lraSlack < SlackOne + MaxSlackSteps * SlackStep
    /\ g_lraSlack' = g_lraSlack + SlackStep
    /\ last' = "key"
    /\ UNCHANGED <<g_iterations, g_useLRA>>
    /\ KeyFrame

\* '[': std::max(1.0f, g_lraSlack - 0.05f)
KeySlackDown ==
    /\ pc = "idle"
    /\ g_lraSlack' = IF SlackOne > g_lraSlack - SlackStep
                     THEN SlackOne ELSE g_lraSlack - SlackStep
    /\ last' = "key"
    /\ UNCHANGED <<g_iterations, g_useLRA>>
    /\ KeyFrame

\* '1', '2', '3', '4'
IterationOfKey == [k \in {"1", "2", "3", "4"} |->
                     CASE k = "1" -> 1 [] k = "2" -> 2 [] k = "3" -> 5 [] k = "4" -> 10]

KeyIterations ==
    /\ pc = "idle"
    /\ \E k \in DOMAIN IterationOfKey : g_iterations' = IterationOfKey[k]
    /\ last' = "key"
    /\ UNCHANGED <<g_useLRA, g_lraSlack>>
    /\ KeyFrame

(***************************************************************************)
(* simulate(), one step per stage and per projected constraint.            *)
(* pc = "local": about to call projectLocal(localConstraints[ci]) in pass  *)
(* iter; pc = "lra": about to call projectLRA(lraConstraints[ci]);         *)
(* pc = "velocity": about to run stage 3.  ci counts from 0 as the C++     *)
(* loop does; the sequences are indexed from 1.                            *)
(***************************************************************************)
SimFrame == UNCHANGED <<localConstraints, lraConstraints, attachmentIndices,
                        g_iterations, g_useLRA, g_lraSlack, first, Q>>

\* where control goes after the loops of pass it are over
AfterPass(it) ==
    IF it + 1 < g_iterations
    THEN [pc |-> "local", iter |-> it + 1, ci |-> 0]
    ELSE [pc |-> "velocity", iter |-> it + 1, ci |-> 0]

\* where control goes after the local loop of pass it
AfterLocal(it) ==
    IF LRAGate(g_useLRA) /\ Len(lraConstraints) > 0
    THEN [pc |-> "lra", iter |-> it, ci |-> 0]
    ELSE AfterPass(it)

Goto(c) == pc' = c.pc /\ iter' = c.iter /\ ci' = c.ci

PredictStep ==
    /\ pc = "idle"
    /\ ticks < MaxTicks
    /\ P' = Predict(P)
    /\ Goto(IF 0 < g_iterations
            THEN [pc |-> "local", iter |-> 0, ci |-> 0]
            ELSE [pc |-> "velocity", iter |-> 0, ci |-> 0])
    /\ ticks' = ticks + 1
    /\ last' = "predict"
    /\ log' = [EmptyLog EXCEPT !.predict = 1]
    /\ SimFrame

LocalStep ==
    /\ pc = "local"
    /\ P' = ProjectLocal(P, localConstraints[ci + 1])
    /\ Goto(IF ci + 1 < Len(localConstraints)
            THEN [pc |-> "local", iter |-> iter, ci |-> ci + 1]
            ELSE AfterLocal(iter))
    /\ last' = "local"
    /\ log' = [log EXCEPT !.cur = Append(IF ci = 0 THEN <<>> ELSE log.cur,
                                         <<"local", ci>>),
                          !.passes = IF pc' \in {"local", "velocity"} /\ ci' = 0
                                     THEN log.passes + 1 ELSE log.passes]
    /\ UNCHANGED ticks
    /\ SimFrame

LRAStep ==
    /\ pc = "lra"
    /\ P' = ProjectLRA(P, lraConstraints[ci + 1], g_lraSlack)
    /\ Goto(IF ci + 1 < Len(lraConstraints)
            THEN [pc |-> "lra", iter |-> iter, ci |-> ci + 1]
            ELSE AfterPass(iter))
    /\ last' = "lra"
    /\ log' = [log EXCEPT !.cur = Append(log.cur, <<"lra", ci>>),
                          !.passes = IF pc' # "lra"
                                     THEN log.passes + 1 ELSE log.passes]
    /\ UNCHANGED ticks
    /\ SimFrame

VelocityStep ==
    /\ pc = "velocity"
    /\ P' = VelocityUpdate(P)
    /\ Goto([pc |-> "idle", iter |-> 0, ci |-> 0])
    /\ last' = "velocity"
    /\ log' = [log EXCEPT !.velocity = 1]
    /\ UNCHANGED ticks
    /\ SimFrame

Next ==
    \/ KeyToggleLRA
    \/ KeyReset
    \/ KeySlackUp
    \/ KeySlackDown
    \/ KeyIterations
    \/ PredictStep
    \/ LocalStep
    \/ LRAStep
    \/ VelocityStep

Spec == Init /\ [][Next]_vars

(***************************************************************************)
(* Two copies in lockstep: P runs with LRA enabled, Q with LRA disabled,   *)
(* both from the same build, with the same iteration count and slack.      *)
(***************************************************************************)
PairInit ==
    /\ InitCommon
    /\ g_iterations \in {IterationOfKey[k] : k \in DOMAIN IterationOfKey}
    /\ g_lraSlack \in {SlackOne + k * SlackStep : k \in 0 .. MaxSlackSteps}
    /\ g_useLRA = TRUE

PairTick ==
    /\ pc = "idle"
    /\ ticks < MaxPairTicks
    /\ P' = Simulate(P, g_iterations, TRUE, g_lraSlack)
    /\ Q' = Simulate(Q, g_iterations, FALSE, g_lraSlack)
    /\ ticks' = ticks + 1
    /\ last' = "velocity"
    /\ UNCHANGED <<localConstraints, lraConstraints, attachmentIndices,
                   g_iterations, g_useLRA, g_lraSlack, pc, iter, ci, log, first>>

PairNext == PairTick

SpecPair == PairInit /\ [][PairNext]_vars

(***************************************************************************)
(* Vocabulary of the properties.                                           *)
(***************************************************************************)
Abs(n) == IF n < 0 THEN -n ELSE n
Dist(Pn, a, b) == Length(VSub(Pn[a].p, Pn[b].p))
RestOf(i) == RestPos(XOf(i), YOf(i))
RestDist(a, b) == Length(VSub(RestOf(a), RestOf(b)))
Pins == {i \in DOMAIN P : P[i].pinned}
Free == {i \in DOMAIN P : ~P[i].pinned}
\* maxDist * g_lraSlack of an LRA constraint, with the current slack
SlackLimit(c) == RDiv(c.maxDist * g_lraSlack, SlackOne)
\* a whole call of simulate() has just returned
TickDone == pc = "idle" /\ last = "velocity"
\* the constraint the last projection step was called with
LastLocal == localConstraints[log.cur[Len(log.cur)][2] + 1]
LastLRA == lraConstraints[log.cur[Len(log.cur)][2] + 1]

(***************************************************************************)
(* C1.  Pin invariance: in every reachable state every pinned particle has *)
(* inverse mass 0 and the position buildScene() gave it.                   *)
(***************************************************************************)
C1_PinInvariance ==
    \A i \in DOMAIN P :
        P[i].pinned => /\ P[i].w = 0
                       /\ P[i].p = first.P[i].p
                       /\ P[i].p = RestOf(i)

\* two ticks are over, free particles have moved, the pins are in the store
C1_Witness ==
    /\ TickDone
    /\ ticks = MaxTicks
    /\ Pins # {}
    /\ \E j \in Free : P[j].p # first.P[j].p

(***************************************************************************)
(* C2.  LRA clamp: when simulate() returns with g_useLRA true, every LRA   *)
(* constraint's particle is within maxDist * g_lraSlack (plus the rounding *)
(* tolerance) of its anchor.                                               *)
(***************************************************************************)
C2_LRAClamp ==
    (TickDone /\ g_useLRA) =>
        \A k \in 1 .. Len(lraConstraints) :
            LET c == lraConstraints[k]
            IN  Dist(P, c.particleIdx, c.attachmentIdx) <= SlackLimit(c) + Tol

\* a second tick returns, after the slack was changed, with a displaced
\* particle sitting at its limit
C2_Witness ==
    /\ TickDone
    /\ g_useLRA
    /\ ticks = MaxTicks
    /\ g_lraSlack # SlackOne
    /\ \E k \in 1 .. Len(lraConstraints) :
           LET c == lraConstraints[k]
           IN  /\ Dist(P, c.particleIdx, c.attachmentIdx) = SlackLimit(c)
               /\ P[c.particleIdx].p # first.P[c.particleIdx].p

(***************************************************************************)
(* C3.  LRA monotonic improvement, as stated: after every tick of the      *)
(* lockstep pair, every free particle is at least as far from its anchor   *)
(* in the LRA-disabled copy Q as in the LRA-enabled copy P (up to the      *)
(* rounding tolerance).                                                    *)
(***************************************************************************)
C3_MonotonicEveryTick ==
    \A k \in 1 .. Len(lraConstraints) :
        LET c == lraConstraints[k]
        IN  Dist(Q, c.particleIdx, c.attachmentIdx) + Tol
                >= Dist(P, c.particleIdx, c.attachmentIdx)

(***************************************************************************)
(* C3, amended.  After every tick of the lockstep pair, whatever the       *)
(* iteration count and the slack, every free particle that the             *)
(* LRA-disabled copy Q has stretched beyond maxDist * g_lraSlack (by more  *)
(* than the rounding tolerance) is at least as far from its anchor in Q as *)
(* in the LRA-enabled copy P.  A particle that Q keeps within its limit    *)
(* may be nearer to its anchor in Q than in P.                             *)
(***************************************************************************)
C3_MonotonicBeyondLimit ==
    \A k \in 1 .. Len(lraConstraints) :
        LET c == lraConstraints[k]
            off == Dist(Q, c.particleIdx, c.attachmentIdx)
            on == Dist(P, c.particleIdx, c.attachmentIdx)
        IN  off > SlackLimit(c) + Tol => off >= on

\* a later tick of a run with the default five passes: the LRA-disabled
\* copy has a particle beyond its limit, which the LRA-enabled copy holds
\* nearer to the anchor
C3_Witness ==
    /\ ticks >= 2
    /\ g_iterations = 5
    /\ \E k \in 1 .. Len(lraConstraints) :
           LET c == lraConstraints[k]
               off == Dist(Q, c.particleIdx, c.attachmentIdx)
               on == Dist(P, c.particleIdx, c.attachmentIdx)
           IN  off > SlackLimit(c) + Tol /\ off > on

(***************************************************************************)
(* C4.  The LRA constraint set: exactly one constraint per free particle,  *)
(* none for a pinned one, in increasing particle order; the anchor is a    *)
(* pinned particle at minimal rest distance, the first of                  *)
(* attachmentIndices among equidistant ones; maxDist is that distance.     *)
(* Checked of the state every buildScene() leaves.                         *)
(***************************************************************************)
C4_LRASet ==
    last = "build" =>
    /\ Len(lraConstraints) = Cardinality(Free)
    /\ \A k \in 1 .. Len(lraConstraints) :
           LET c == lraConstraints[k]
               d == RestDist(c.particleIdx, c.attachmentIdx)
           IN  /\ c.particleIdx \in Free
               /\ c.attachmentIdx \in Pins
               /\ k > 1 => lraConstraints[k - 1].particleIdx < c.particleIdx
               /\ c.maxDist = d
               /\ \A m \in 1 .. Len(attachmentIndices) :
                      LET a == attachmentIndices[m]
                      IN  /\ d <= RestDist(c.particleIdx, a)
                          /\ d = RestDist(c.particleIdx, a) =>
                                 \E n \in 1 .. m : attachmentIndices[n] = c.attachmentIdx
                                                   /\ c.attachmentIdx <= a

\* a rebuilt scene in which some particle has two equidistant anchors
C4_Witness ==
    /\ last = "build"
    /\ ticks > 0
    /\ \E k \in 1 .. Len(lraConstraints) : \E a \in Pins :
           LET c == lraConstraints[k]
           IN  /\ a # c.attachmentIdx
               /\ RestDist(c.particleIdx, a) = c.maxDist

(***************************************************************************)
(* C5.  The local constraint set: exactly one entry per pair of            *)
(* horizontally or vertically adjacent grid particles and no other entry,  *)
(* (W-1)*H + W*(H-1) in total, each with the rest distance of its          *)
(* endpoints as restLen.  Checked of the state every buildScene() leaves.  *)
(***************************************************************************)
Adjacent(a, b) ==
    \/ YOf(a) = YOf(b) /\ Abs(XOf(a) - XOf(b)) = 1
    \/ XOf(a) = XOf(b) /\ Abs(YOf(a) - YOf(b)) = 1

C5_LocalSet ==
    last = "build" =>
    /\ Len(localConstraints) = (clothW - 1) * clothH + clothW * (clothH - 1)
    /\ \A k \in 1 .. Len(localConstraints) :
           LET c == localConstraints[k]
           IN  /\ c.i \in DOMAIN P
               /\ c.j \in DOMAIN P
               /\ c.i # c.j
               /\ Adjacent(c.i, c.j)
               /\ c.restLen = RestDist(c.i, c.j)
    /\ \A a, b \in DOMAIN P :
           (a < b /\ Adjacent(a, b)) =>
               Cardinality({k \in 1 .. Len(localConstraints) :
                               {localConstraints[k].i, localConstraints[k].j} = {a, b}}) = 1

\* a rebuilt scene with a horizontal and a vertical edge
C5_Witness ==
    /\ last = "build"
    /\ ticks > 0
    /\ \E k, m \in 1 .. Len(localConstraints) :
           /\ YOf(localConstraints[k].i) = YOf(localConstraints[k].j)
           /\ XOf(localConstraints[m].i) = XOf(localConstraints[m].j)

(***************************************************************************)
(* C6.  Reset: right after any buildScene() the particle store, both       *)
(* constraint sets and attachmentIndices equal those of the first build;   *)
(* every particle is at rest (old_p = p, v = 0).                           *)
(***************************************************************************)
C6_ResetRebuilds ==
    last = "build" =>
        /\ Scene(P, localConstraints, lraConstraints, attachmentIndices) = first
        /\ \A i \in DOMAIN P : /\ P[i].p = RestOf(i)
                               /\ P[i].old_p = P[i].p
                               /\ P[i].v = VZero

\* a reset after ticks that had moved the cloth
C6_Witness ==
    /\ last = "build"
    /\ ticks = MaxTicks

(***************************************************************************)
(* C7.  Mass-weighted correction: a projectLocal() call on a constraint    *)
(* with one pinned and one free endpoint, at least epsilon apart, leaves   *)
(* the pinned endpoint where it is and moves the free one by the whole     *)
(* correction |dist - restLen|, so that the two end up restLen apart; with *)
(* two free endpoints each moves by half the correction, in opposite       *)
(* directions.  Lengths are compared up to the rounding tolerance.         *)
(***************************************************************************)
C7_Step ==
    pc = "local" =>
        LET c == localConstraints[ci + 1]
            a == P[c.i]
            b == P[c.j]
            dist == Dist(P, c.i, c.j)
            corr == Abs(dist - c.restLen)
            da == VSub(P'[c.i].p, a.p)
            db == VSub(P'[c.j].p, b.p)
        IN  ~BelowEps(dist) =>
              /\ (a.pinned /\ ~b.pinned) =>
                     /\ da = VZero
                     /\ Abs(Length(db) - corr) <= Tol
                     /\ Abs(Dist(P', c.i, c.j) - c.restLen) <= Tol
              /\ (~a.pinned /\ b.pinned) =>
                     /\ db = VZero
                     /\ Abs(Length(da) - corr) <= Tol
                     /\ Abs(Dist(P', c.i, c.j) - c.restLen) <= Tol
              /\ (~a.pinned /\ ~b.pinned) =>
                     /\ da = VSub(VZero, db)
                     /\ Abs(2 * Length(da) - corr) <= 2 * Tol

C7_MassWeighted == [][C7_Step]_vars

\* projectLocal() has just pulled a displaced free particle back to restLen
\* from its pinned neighbour
C7_Witness ==
    /\ last = "local"
    /\ LET c == LastLocal
       IN  /\ P[c.i].pinned # P[c.j].pinned
           /\ Dist(P, c.i, c.j) = c.restLen
           /\ \E e \in {c.i, c.j} : ~P[e].pinned /\ P[e].p # P[e].old_p
                                    /\ P[e].p # RestOf(e)

(***************************************************************************)
(* C8.  Stage order of a tick: predict once, then exactly g_iterations     *)
(* passes, each projecting every local constraint in construction order    *)
(* and then, only if g_useLRA, every LRA constraint in construction order, *)
(* then the velocity stage once.  log records what the tick has run.       *)
(***************************************************************************)
LocalEvents(n) == [k \in 1 .. n |-> <<"local", k - 1>>]
LRAEvents(n) == [k \in 1 .. n |-> <<"lra", k - 1>>]
WholePass ==
    LocalEvents(Len(localConstraints))
        \o (IF g_useLRA THEN LRAEvents(Len(lraConstraints)) ELSE <<>>)

C8_StageOrder ==
    /\ pc = "local" =>
           /\ log.predict = 1 /\ log.velocity = 0
           /\ iter < g_iterations
           /\ log.passes = iter
           /\ log.cur = IF ci > 0 THEN LocalEvents(ci)
                        ELSE IF iter > 0 THEN WholePass ELSE <<>>
    /\ pc = "lra" =>
           /\ g_useLRA
           /\ log.predict = 1 /\ log.velocity = 0
           /\ iter < g_iterations
           /\ log.passes = iter
           /\ log.cur = LocalEvents(Len(localConstraints)) \o LRAEvents(ci)
    /\ pc = "velocity" =>
           /\ log.predict = 1 /\ log.velocity = 0
           /\ log.passes = g_iterations
           /\ log.cur = WholePass
    /\ TickDone =>
           /\ log.predict = 1 /\ log.velocity = 1
           /\ log.passes = g_iterations
           /\ log.cur = WholePass

\* a ten-pass tick with LRA switched off has run to its end
C8_Witness ==
    /\ TickDone
    /\ ~g_useLRA
    /\ g_iterations = 10
    /\ log.passes = 10

(***************************************************************************)
(* C9.  projectLRA() is a one-sided clamp: it changes nothing but the      *)
(* position of its own particle, and that only if the particle is farther  *)
(* from the anchor than maxDist * g_lraSlack; it then puts the particle at *)
(* that distance from the anchor, in the direction it was in.              *)
(***************************************************************************)
Cross(u, v) ==
    Vec(u.y * v.z - u.z * v.y, u.z * v.x - u.x * v.z, u.x * v.y - u.y * v.x)
Dot(u, v) == u.x * v.x + u.y * v.y + u.z * v.z

C9_Step ==
    pc = "lra" =>
        LET c == lraConstraints[ci + 1]
            limit == SlackLimit(c)
            d == VSub(P[c.particleIdx].p, P[c.attachmentIdx].p)
            e == VSub(P'[c.particleIdx].p, P'[c.attachmentIdx].p)
        IN  /\ \A i \in DOMAIN P : i # c.particleIdx => P'[i] = P[i]
            /\ P'[c.particleIdx] = [P[c.particleIdx] EXCEPT !.p = P'[c.particleIdx].p]
            /\ Length(d) <= limit => P'[c.particleIdx].p = P[c.particleIdx].p
            /\ Length(d) > limit =>
                   /\ Abs(Length(e) - limit) <= Tol
                   /\ Dot(d, e) > 0
                   /\ Length(Cross(d, e)) <= Tol * Length(d)

C9_OneSidedClamp == [][C9_Step]_vars

\* projectLRA() has just put a particle onto its limit sphere, with slack
C9_Witness ==
    /\ last = "lra"
    /\ g_lraSlack # SlackOne
    /\ LET c == LastLRA
       IN  /\ Dist(P, c.particleIdx, c.attachmentIdx) = SlackLimit(c)
           /\ P[c.particleIdx].p # RestOf(c.particleIdx)

(***************************************************************************)
(* C10.  Frame: a step of simulate() or a parameter key leaves both        *)
(* constraint sets, attachmentIndices, the number of particles and every   *)
(* particle's w and pinned unchanged, and changes no field of a pinned     *)
(* particle.                                                               *)
(***************************************************************************)
C10_Step ==
    last' # "build" =>
        /\ localConstraints' = localConstraints
        /\ lraConstraints' = lraConstraints
        /\ attachmentIndices' = attachmentIndices
        /\ DOMAIN P' = DOMAIN P
        /\ \A i \in DOMAIN P :
               /\ P'[i].w = P[i].w
               /\ P'[i].pinned = P[i].pinned
               /\ P[i].pinned => P'[i] = P[i]

C10_Frame == [][C10_Step]_vars

\* ticks and key presses have happened: a free particle has new p, old_p, v
C10_Witness ==
    /\ TickDone
    /\ ticks = MaxTicks
    /\ g_iterations # 5
    /\ \E i \in Free : /\ P[i].p # first.P[i].p
                       /\ P[i].old_p # first.P[i].old_p
                       /\ P[i].v # VZero

====
